---- MODULE Spec2Model ----
(***************************************************************************)
(* Model of mergekit/sparsify.py: the sparsification strategies            *)
(* (magnitude, magnitude_outliers, bernoulli, rank_magnitude), the         *)
(* sum-preserving rescaler, the sparsify dispatcher and get_tall_mask.     *)
(*                                                                         *)
(* A tensor is a record [data, shape, device, dtype]; data is the          *)
(* row-major sequence of its entries.  Entries and the scalar parameters   *)
(* are exact rationals [n, d] (d > 0, lowest terms); d = 0 encodes the     *)
(* IEEE specials: 0/0 is NaN, 1/0 and -1/0 the infinities.  Every function *)
(* of the source is an operator that yields the SET of effects one call    *)
(* can have (the unstable argsort's tie order and the Bernoulli draws are  *)
(* choices); an effect records the outcome, the returned tensor, the       *)
(* caller's tensor after the call and the locals the function computed.    *)
(* Arithmetic is exact: the entries are integers, which float16, bfloat16  *)
(* and float32 hold exactly, so the casts between them (w.float(),         *)
(* tensor.to(work_dtype)) change only the dtype that is recorded.          *)
(***************************************************************************)
EXTENDS Integers, Sequences, FiniteSets, TLC

VARIABLES
    tensor,  \* the caller's tensor object: the `tensor` (or `delta`) argument
    input,   \* the value that tensor had when the call was made
    call,    \* the function called and its scalar arguments
    pc,      \* "idle" before the call, "done" once it returned or raised
    eff      \* the call's outcome, return value and locals

vars == <<tensor, input, call, pc, eff>>

\* Bounds of the model: tensors hold at most MaxLen entries, each an integer
\* in -1 .. MaxVal.
MaxLen == 3
MaxVal == 1

(***************************************************************************)
(* Exact rational arithmetic with the IEEE specials                        *)
(***************************************************************************)
Abs(x) == IF x < 0 THEN -x ELSE x

Sgn(x) == IF x < 0 THEN -1 ELSE IF x > 0 THEN 1 ELSE 0

RECURSIVE GCD(_, _)
GCD(a, b) == IF b = 0 THEN a ELSE GCD(b, a % b)

\* n/d for d > 0, in lowest terms
R(n, d) == LET g == GCD(Abs(n), d) IN [n |-> n \div g, d |-> d \div g]

NaN == [n |-> 0, d |-> 0]

IsNaN(a) == a.d = 0 /\ a.n = 0

IsFinite(a) == a.d # 0

RAbs(a) == [n |-> Abs(a.n), d |-> a.d]

RAdd(a, b) ==
    IF a.d = 0 \/ b.d = 0
    THEN IF a.d = 0 /\ b.d = 0
         THEN (IF a.n = b.n THEN a ELSE NaN)
         ELSE (IF a.d = 0 THEN a ELSE b)
    ELSE R(a.n * b.d + b.n * a.d, a.d * b.d)

RNeg(a) == [n |-> -a.n, d |-> a.d]

RSub(a, b) == RAdd(a, RNeg(b))

RMul(a, b) ==
    IF a.d = 0 \/ b.d = 0
    THEN [n |-> Sgn(a.n) * Sgn(b.n), d |-> 0]
    ELSE R(a.n * b.n, a.d * b.d)

\* 1/a: 1/0 is an infinity, 1/inf is 0, 1/NaN is NaN
RInv(a) ==
    IF a.d = 0
    THEN (IF a.n = 0 THEN NaN ELSE [n |-> 0, d |-> 1])
    ELSE IF a.n = 0 THEN [n |-> 1, d |-> 0]
    ELSE [n |-> Sgn(a.n) * a.d, d |-> Abs(a.n)]

RDiv(a, b) == RMul(a, RInv(b))

\* comparisons of finite values; every comparison with NaN is false
RGe(a, b) == a.d # 0 /\ b.d # 0 /\ a.n * b.d >= b.n * a.d

RGt(a, b) == a.d # 0 /\ b.d # 0 /\ a.n * b.d > b.n * a.d

RLe(a, b) == RGe(b, a)

RLt(a, b) == RGt(b, a)

RZero == R(0, 1)

ROne == R(1, 1)

\* Python's int(): truncation towards zero
Trunc(a) == IF a.n >= 0 THEN a.n \div a.d ELSE -((-a.n) \div a.d)

RECURSIVE SumSeq(_)
SumSeq(s) == IF s = <<>> THEN RZero ELSE RAdd(Head(s), SumSeq(Tail(s)))

RECURSIVE Prod(_)
Prod(s) == IF s = <<>> THEN 1 ELSE Head(s) * Prod(Tail(s))

(***************************************************************************)
(* Tensor primitives (torch)                                               *)
(***************************************************************************)
numel(T) == Prod(T.shape)

\* tensor.abs().view(-1)
AbsData(d) == [i \in 1..Len(d) |-> RAbs(d[i])]

\* tensor * mask, elementwise; mask entries are 0 or 1
MulMask(d, m) == [i \in 1..Len(d) |-> RMul(d[i], R(m[i], 1))]

\* x.abs().sum()
AbsSum(d) == SumSeq(AbsData(d))

\* the index orders of n entries (tabulated once for the lengths that occur)
PermsTable ==
    [n \in 1..MaxLen |->
        {p \in [1..n -> 1..n] : \A i, j \in 1..n : i # j => p[i] # p[j]}]

Perms(n) == PermsTable[n]

\* torch.argsort / torch.sort(...).indices: not stable, so every index order
\* that sorts the values is a possible result (0-based positions are 1-based here)
ArgsortDesc_ascending(w) ==
    {p \in Perms(Len(w)) : \A i \in 1..(Len(w) - 1) : RLe(w[p[i]], w[p[i + 1]])}

ArgsortDesc(w) ==
    {p \in Perms(Len(w)) : \A i \in 1..(Len(w) - 1) : RGe(w[p[i]], w[p[i + 1]])}

ArgsortAsc(w) ==
    {p \in Perms(Len(w)) : \A i \in 1..(Len(w) - 1) : RLe(w[p[i]], w[p[i + 1]])}

\* a Python slice bound on a sequence of length n: a negative bound counts
\* from the end, and the bound is clamped to 0..n
SliceIdx(lo, n) == IF lo < 0 THEN (IF lo + n < 0 THEN 0 ELSE lo + n)
                   ELSE (IF lo > n THEN n ELSE lo)

\* the 0-based positions selected by seq[lo:hi]
SlicePos(lo, hi, n) ==
    {j \in 0..(n - 1) : SliceIdx(lo, n) <= j /\ j < SliceIdx(hi, n)}

\* mask = zeros_like(tensor); mask.view(-1)[idx] = 1
MaskOf(n, idx) == [i \in 1..n |-> IF i \in idx THEN 1 ELSE 0]

(***************************************************************************)
(* Inputs                                                                  *)
(***************************************************************************)
Vals == (-1)..MaxVal

Devices == {"cpu", "cuda"}

Dtypes == {"float16", "bfloat16", "float32"}

\* 1-D shapes <<n>> and 2-D shapes <<r, c>> of at most MaxLen entries
Shapes == {<<n>> : n \in 1..MaxLen}
          \cup {<<r, c>> : r \in 1..MaxLen, c \in 1..MaxLen}

\* the six precision contexts (execution context, dtype)
Contexts == {<<dev, dt>> : dev \in Devices, dt \in Dtypes}

TensorsOver(vals, ctxs) ==
    UNION {[data : [1..Prod(sh) -> {R(v, 1) : v \in vals}],
            shape : {sh}, device : {c[1]}, dtype : {c[2]}]
           : sh \in {s \in Shapes : Prod(s) <= MaxLen}, c \in ctxs}

\* The tensors a call is made on: every data over Vals in float32 on the CPU,
\* and every precision context over the data with entries in {-1, MaxVal}
\* (no function of the source reads an entry and the dtype or device together).
Tensors ==
    TensorsOver(Vals, {<<"cpu", "float32">>})
    \cup TensorsOver({-1, MaxVal}, Contexts)

Densities == {R(1, 4), R(1, 2), R(3, 4), R(1, 1), R(5, 4)}

Gammas == {R(0, 1), R(1, 2), R(3, 4)}

Epsilons == {R(1, 4), R(3, 5)}

\* the defaults of sparsify's signature
DefaultGamma == R(0, 1)

DefaultEpsilon == R(3, 20)

Lambdas == {R(0, 1), R(1, 2), R(1, 1)}

\* the six tags of the enum, and a value that is none of them
SparsificationMethod ==
    {"magnitude", "random", "magnitude_outliers", "rank_magnitude_sampling",
     "consensus_ta", "consensus_ties"}

Methods == SparsificationMethod \cup {"unknown"}

(***************************************************************************)
(* Effects of a call                                                       *)
(***************************************************************************)
\* T is the caller's tensor; unset locals are -1, <<>> or "none"
NoEff(T) ==
    [outcome |-> "none", res |-> <<>>, rshape |-> <<>>, rdtype |-> "none",
     alias |-> FALSE, tensor |-> T.data,
     k |-> -1, n_top |-> -1, n_bot |-> -1, mask |-> <<>>, probs |-> <<>>,
     work_dtype |-> "none"]

\* `return tensor`: the caller's own tensor object comes back
ReturnInput(T) ==
    [NoEff(T) EXCEPT !.outcome = "returned", !.res = T.data, !.rshape = T.shape,
                     !.rdtype = T.dtype, !.alias = TRUE]

Raise(e, err) == [e EXCEPT !.outcome = err]

\* rescale_sum(tensor, mask): `tensor *= ...` scales the argument itself,
\* `tensor * mask` is a new tensor
rescale_sum(d, m) ==
    LET org_sum == AbsSum(d)
        new_sum == AbsSum(MulMask(d, m))
        Eps == R(1, 100000000)
        t == IF RGe(org_sum, Eps) /\ RGe(new_sum, Eps)
             THEN [i \in 1..Len(d) |-> RMul(d[i], RDiv(org_sum, new_sum))]
             ELSE d
    IN [tensor |-> t, res |-> MulMask(t, m)]

\* the `if rescale: ... else: res = tensor * mask` tail of the two
\* magnitude strategies
Masked(T, e, m, rescale) ==
    LET rs == IF rescale THEN rescale_sum(T.data, m)
              ELSE [tensor |-> T.data, res |-> MulMask(T.data, m)]
    IN [e EXCEPT !.outcome = "returned", !.mask = m, !.res = rs.res,
                 !.tensor = rs.tensor, !.rshape = T.shape, !.rdtype = T.dtype]

\* assert k > 0
AssertK_nonnegative(k) == k >= 0

AssertK(k) == k > 0

magnitude(T, density, rescale) ==
    IF RGe(density, ROne) THEN {ReturnInput(T)}
    ELSE LET k == Trunc(RMul(density, R(numel(T), 1)))
             e == [NoEff(T) EXCEPT !.k = k]
         IN IF ~AssertK(k) THEN {Raise(e, "AssertionError")}
            ELSE {Masked(T, e,
                         MaskOf(numel(T),
                                {p[j + 1] : j \in SlicePos(0, k, numel(T))}),
                         rescale)
                  : p \in ArgsortDesc(AbsData(T.data))}

magnitude_outliers(T, density, rescale, gamma) ==
    IF RGe(density, ROne) THEN {ReturnInput(T)}
    ELSE LET num_elems == numel(T)
             target_n == Trunc(RMul(density, R(num_elems, 1)))
             n_top0 == Trunc(RMul(gamma, R(num_elems, 1)))
             n_bot0 == num_elems - target_n - n_top0
             n_top == IF n_bot0 < 0 THEN n_top0 + n_bot0 ELSE n_top0
             n_bot == IF n_bot0 < 0 THEN 0 ELSE n_bot0
             e == [NoEff(T) EXCEPT !.k = target_n, !.n_top = n_top,
                                   !.n_bot = n_bot]
         IN {Masked(T, e,
                    MaskOf(num_elems,
                           {p[j + 1] : j \in SlicePos(n_bot, -n_top, num_elems)}),
                    rescale)
             : p \in ArgsortAsc(AbsData(T.data))}

\* NumericStabilityPolicy, written inline in both stochastic strategies
WorkDtype(T) ==
    IF T.device # "cpu" \/ T.dtype = "bfloat16" THEN T.dtype ELSE "float32"

\* torch.bernoulli(p): entry i is 1 with probability p[i].  A probability
\* outside [0, 1] (NaN included) fails torch's range check where the kernel
\* checks it, and gives an arbitrary draw where it does not.
ValidProb(p) == RGe(p, RZero) /\ RLe(p, ROne)

BernoulliRejects(probs) == \E i \in 1..Len(probs) : ~ValidProb(probs[i])

BernoulliMasks(probs) ==
    {m \in [1..Len(probs) -> {0, 1}] :
        \A i \in 1..Len(probs) :
            ValidProb(probs[i]) =>
                /\ (m[i] = 1 => RGt(probs[i], RZero))
                /\ (m[i] = 0 => RLt(probs[i], ROne))}

bernoulli(T, density, rescale) ==
    IF RGe(density, ROne) THEN {ReturnInput(T)}
    ELSE LET work_dtype == WorkDtype(T)
             probs == [i \in 1..numel(T) |-> density]
             e == [NoEff(T) EXCEPT !.work_dtype = work_dtype, !.probs = probs]
         IN (IF BernoulliRejects(probs) THEN {Raise(e, "RuntimeError")} ELSE {})
            \cup
            {[e EXCEPT !.outcome = "returned", !.mask = m,
                       !.res = IF rescale
                               THEN [i \in 1..numel(T) |->
                                        RDiv(MulMask(T.data, m)[i], density)]
                               ELSE MulMask(T.data, m),
                       !.rshape = T.shape,
                       !.rdtype = T.dtype]
             : m \in BernoulliMasks(probs)}

\* tensor.unsqueeze(0) when len(tensor.shape) < 2
Unsqueezed(shape) == IF Len(shape) < 2 THEN <<1>> \o shape ELSE shape

\* res.squeeze(0): drops dimension 0 when its size is 1
Squeeze0(shape) == IF shape[1] = 1 THEN Tail(shape) ELSE shape

\* row i (1-based) of row-major data of shape <<rows, cols>>
Row(d, cols, i) == SubSeq(d, (i - 1) * cols + 1, i * cols)

SeqMax(s) == CHOOSE x \in {s[i] : i \in 1..Len(s)} : \A j \in 1..Len(s) : s[j] <= x

SeqMin(s) == CHOOSE x \in {s[i] : i \in 1..Len(s)} : \A j \in 1..Len(s) : s[j] >= x

\* ranking_tensor[i][sorted_indices[i]] = arange(1, cols + 1)
Ranking(p) == [c \in 1..Len(p) |-> CHOOSE j \in 1..Len(p) : p[j] = c]

\* final_probabilities of one row from its ranking
RowProbs(rk, density, epsilon) ==
    LET range_vals == SeqMax(rk) - SeqMin(rk)
    IN [c \in 1..Len(rk) |->
           RAdd(RSub(density, epsilon),
                RMul(RDiv(R(rk[c] - SeqMin(rk), 1), R(range_vals, 1)),
                     RMul(R(2, 1), epsilon)))]

RECURSIVE Flatten(_)
Flatten(ss) == IF ss = <<>> THEN <<>> ELSE Head(ss) \o Flatten(Tail(ss))

\* the band check that precedes the sampling
BandError_strict(density, epsilon) ==
    RLt(density, epsilon) \/ RGt(density, RSub(ROne, epsilon))

BandError(density, epsilon) ==
    RLe(density, epsilon) \/ RGe(density, RSub(ROne, epsilon))

\* lines 124-159: ranking, sampling and rescaling, once both checks passed
rank_sample(T, density, rescale, epsilon) ==
    LET work_dtype == WorkDtype(T)
        shape2 == Unsqueezed(T.shape)
        rows == shape2[1]
        cols == shape2[2]
        tensor_abs == AbsData(T.data)
        sorts == {f \in [1..rows -> Perms(cols)] :
                     \A i \in 1..rows :
                         f[i] \in ArgsortAsc(Row(tensor_abs, cols, i))}
    IN UNION {
         LET probs == Flatten([i \in 1..rows |->
                          RowProbs(Ranking(f[i]), density, epsilon)])
             e == [NoEff(T) EXCEPT !.work_dtype = work_dtype,
                                   !.probs = probs]
         IN (IF BernoulliRejects(probs) THEN {Raise(e, "RuntimeError")}
             ELSE {})
            \cup
            {[e EXCEPT !.outcome = "returned", !.mask = m,
                       !.res = IF rescale
                               THEN [i \in 1..numel(T) |->
                                        RDiv(MulMask(T.data, m)[i], probs[i])]
                               ELSE MulMask(T.data, m),
                       !.rshape = Squeeze0(shape2),
                       !.rdtype = work_dtype]
             : m \in BernoulliMasks(probs)}
         : f \in sorts}

rank_magnitude_bandfirst(T, density, rescale, epsilon) ==
    IF BandError(density, epsilon) THEN {Raise(NoEff(T), "ValueError")}
    ELSE IF RGe(density, ROne) THEN {ReturnInput(T)}
    ELSE rank_sample(T, density, rescale, epsilon)

rank_magnitude(T, density, rescale, epsilon) ==
    IF RGe(density, ROne) THEN {ReturnInput(T)}
    ELSE IF BandError(density, epsilon) THEN {Raise(NoEff(T), "ValueError")}
    ELSE rank_sample(T, density, rescale, epsilon)

sparsify(T, density, method, gamma, rescale, epsilon) ==
    IF method = "magnitude" \/ method = "consensus_ties"
    THEN magnitude(T, density, rescale)
    ELSE IF method = "random" THEN bernoulli(T, density, rescale)
    ELSE IF method = "magnitude_outliers"
    THEN magnitude_outliers(T, density, rescale, gamma)
    ELSE IF method = "rank_magnitude_sampling"
    THEN rank_magnitude(T, density, rescale, epsilon)
    ELSE {Raise(NoEff(T), "NotImplementedError")}

\* mask = delta.abs() > lambda_factor * (mixed_delta - delta).abs(), as 0/1
get_tall_mask(T, lambda_factor, mixed_delta) ==
    {[NoEff(T) EXCEPT !.outcome = "returned",
                      !.res = [i \in 1..numel(T) |->
                                 IF RGt(RAbs(T.data[i]),
                                        RMul(lambda_factor,
                                             RAbs(RSub(mixed_delta[i], T.data[i]))))
                                 THEN ROne ELSE RZero],
                      !.rshape = T.shape, !.rdtype = "bool"]}

\* The argument triples sparsify is called with: gamma varies where the
\* routed strategy reads it, epsilon where the routed strategy reads it; the
\* other calls pass the defaults.
SparsifyArgs ==
    {a \in [method : Methods, gamma : Gammas \cup {DefaultGamma},
            epsilon : Epsilons \cup {DefaultEpsilon}] :
        /\ a.method # "magnitude_outliers" => a.gamma = DefaultGamma
        /\ a.method # "rank_magnitude_sampling" => a.epsilon = DefaultEpsilon
        /\ a.method = "rank_magnitude_sampling" => a.epsilon \in Epsilons}

\* the multi-task vector: this task's delta plus another task's delta whose
\* entries all equal v
MixedWith(T, v) == [i \in 1..numel(T) |-> RAdd(T.data[i], R(v, 1))]

(***************************************************************************)
(* The state machine: one call on a tensor the caller holds                *)
(***************************************************************************)
NoCall ==
    [fn |-> "none", method |-> "none", density |-> RZero, gamma |-> RZero,
     rescale |-> FALSE, epsilon |-> RZero]

Init ==
    /\ tensor \in Tensors
    /\ input = tensor
    /\ call = NoCall
    /\ pc = "idle"
    /\ eff = NoEff(tensor)

\* the call ends with effect e: the caller's tensor holds what the call left
Finish(c, e) ==
    /\ pc' = "done"
    /\ call' = c
    /\ eff' = e
    /\ tensor' = [tensor EXCEPT !.data = e.tensor]
    /\ UNCHANGED input

CallMagnitude ==
    /\ pc = "idle"
    /\ \E density \in Densities, rescale \in BOOLEAN :
           \E e \in magnitude(tensor, density, rescale) :
               Finish([NoCall EXCEPT !.fn = "magnitude", !.density = density,
                                     !.rescale = rescale], e)

CallMagnitudeOutliers ==
    /\ pc = "idle"
    /\ \E density \in Densities, rescale \in BOOLEAN, gamma \in Gammas :
           \E e \in magnitude_outliers(tensor, density, rescale, gamma) :
               Finish([NoCall EXCEPT !.fn = "magnitude_outliers",
                                     !.density = density, !.rescale = rescale,
                                     !.gamma = gamma], e)

CallBernoulli ==
    /\ pc = "idle"
    /\ \E density \in Densities, rescale \in BOOLEAN :
           \E e \in bernoulli(tensor, density, rescale) :
               Finish([NoCall EXCEPT !.fn = "bernoulli", !.density = density,
                                     !.rescale = rescale], e)

CallRankMagnitude ==
    /\ pc = "idle"
    /\ \E density \in Densities, rescale \in BOOLEAN, epsilon \in Epsilons :
           \E e \in rank_magnitude(tensor, density, rescale, epsilon) :
               Finish([NoCall EXCEPT !.fn = "rank_magnitude", !.density = density,
                                     !.rescale = rescale, !.epsilon = epsilon], e)

CallSparsify ==
    /\ pc = "idle"
    /\ \E density \in Densities, rescale \in BOOLEAN, a \in SparsifyArgs :
           \E e \in sparsify(tensor, density, a.method, a.gamma, rescale, a.epsilon) :
               Finish([fn |-> "sparsify", method |-> a.method, density |-> density,
                       gamma |-> a.gamma, rescale |-> rescale,
                       epsilon |-> a.epsilon], e)

CallRescaleSum ==
    /\ pc = "idle"
    /\ \E m \in [1..numel(tensor) -> {0, 1}] :
           LET rs == rescale_sum(tensor.data, m)
           IN Finish([NoCall EXCEPT !.fn = "rescale_sum"],
                     [NoEff(tensor) EXCEPT !.outcome = "returned", !.mask = m,
                                           !.res = rs.res, !.tensor = rs.tensor,
                                           !.rshape = tensor.shape,
                                           !.rdtype = tensor.dtype])

CallGetTallMask ==
    /\ pc = "idle"
    /\ \E lambda_factor \in Lambdas, v \in Vals :
           \E e \in get_tall_mask(tensor, lambda_factor, MixedWith(tensor, v)) :
               Finish([NoCall EXCEPT !.fn = "get_tall_mask"], e)

Next ==
    \/ CallMagnitude
    \/ CallMagnitudeOutliers
    \/ CallBernoulli
    \/ CallRankMagnitude
    \/ CallSparsify
    \/ CallRescaleSum
    \/ CallGetTallMask

Spec == Init /\ [][Next]_vars

(***************************************************************************)
(* Vocabulary of the properties                                            *)
(***************************************************************************)
Done == pc = "done"

Returned == eff.outcome = "returned"

\* the call reached function fn, directly or through sparsify with a tag of tags
Reaches(fn, tags) ==
    call.fn = fn \/ (call.fn = "sparsify" /\ call.method \in tags)

MagnitudeCall == Reaches("magnitude", {"magnitude", "consensus_ties"})

OutliersCall == Reaches("magnitude_outliers", {"magnitude_outliers"})

BernoulliCall == Reaches("bernoulli", {"random"})

RankCall == Reaches("rank_magnitude", {"rank_magnitude_sampling"})

N == Len(input.data)

NonZero(x) == x.n # 0 \/ x.d = 0

NonZeroIdx(d) == {i \in 1..Len(d) : NonZero(d[i])}

Kept == {i \in 1..Len(eff.mask) : eff.mask[i] = 1}

\* floor(q * n) for q >= 0
FloorMul(q, n) == (q.n * n) \div q.d

Min(a, b) == IF a < b THEN a ELSE b

InputAbs(i) == RAbs(input.data[i])

\* epsilon < density < 1 - epsilon
InBand == RLt(call.epsilon, call.density)
          /\ RLt(call.density, RSub(ROne, call.epsilon))

(***************************************************************************)
(* C1  magnitude_outliers on a tensor without zero entries, density in     *)
(* (0,1), gamma in [0,1): the kept set is the band [n_bot, N - n_top) of   *)
(* the entries in ascending order of magnitude, so the output has exactly  *)
(* target_n non-zero entries and n_bot + n_top entries are dropped.        *)
(***************************************************************************)
C1_target_n == FloorMul(call.density, N)

C1_n_top0 == FloorMul(call.gamma, N)

C1_n_bot0 == N - C1_target_n - C1_n_top0

C1_n_top == IF C1_n_bot0 < 0 THEN C1_n_top0 + C1_n_bot0 ELSE C1_n_top0

C1_n_bot == IF C1_n_bot0 < 0 THEN 0 ELSE C1_n_bot0

\* C1: the kept set is the band, target_n entries are non-zero
C1_OutlierBand ==
    (/\ Done
     /\ OutliersCall
     /\ RLt(call.density, ROne)
     /\ \A i \in 1..N : NonZero(input.data[i]))
    => /\ Returned
       /\ \E p \in ArgsortAsc(AbsData(input.data)) :
              Kept = {p[j + 1] : j \in C1_n_bot..(N - C1_n_top - 1)}
       /\ Cardinality(NonZeroIdx(eff.res)) = C1_target_n
       /\ Cardinality((1..N) \ Kept) = C1_n_bot + C1_n_top

(***************************************************************************)
(* C2  sparsify raises the not-implemented error exactly for a tag outside *)
(* the six tags of the enum; consensus_ties runs the strategy of           *)
(* magnitude and consensus_ta the strategy of random.                      *)
(***************************************************************************)
\* C2: not-implemented exactly outside the enum, aliases routed
C2_Dispatch ==
    (Done /\ call.fn = "sparsify")
    => /\ (eff.outcome = "NotImplementedError")
              <=> (call.method \notin SparsificationMethod)
       /\ call.method = "consensus_ties"
              => eff \in magnitude(input, call.density, call.rescale)
       /\ call.method = "consensus_ta"
              => eff \in bernoulli(input, call.density, call.rescale)

(***************************************************************************)
(* C3  After any call, returning or raising, the caller's tensor holds the *)
(* values it held before the call.                                         *)
(***************************************************************************)
\* C3: the caller's tensor is what it was
C3_InputUnmodified == Done => tensor = input

(***************************************************************************)
(* C4  magnitude, density in (0,1), k = floor(density * N) > 0.            *)
(* Original: the output has exactly k non-zero entries, and every non-zero *)
(* output entry is at least as large in original magnitude as every zeroed *)
(* one.                                                                    *)
(* Amended: the mask keeps exactly k entries; the non-zero output entries  *)
(* are the kept entries that were non-zero, min(k, number of non-zero      *)
(* input entries) of them; the magnitude ordering holds as stated.         *)
(***************************************************************************)
C4_k == FloorMul(call.density, N)

C4_Case == Done /\ MagnitudeCall /\ RLt(call.density, ROne) /\ C4_k > 0

C4_Ordered ==
    \A i \in NonZeroIdx(eff.res) :
        \A j \in (1..N) \ NonZeroIdx(eff.res) : RGe(InputAbs(i), InputAbs(j))

C5_StrategyCall == MagnitudeCall \/ OutliersCall \/ BernoulliCall \/ RankCall

\* C5: density >= 1 gives back the caller's tensor, with no error
C5_Identity ==
    (Done /\ C5_StrategyCall /\ RGe(call.density, ROne))
    => /\ Returned
       /\ eff.alias
       /\ eff.res = input.data
       /\ eff.rshape = input.shape
       /\ eff.rdtype = input.dtype
       /\ tensor = input

\* C5 witness: rank_magnitude returns although its band check would have failed
C5_Witness ==
    /\ Done
    /\ RankCall
    /\ RGe(call.density, ROne)
    /\ ~InBand
    /\ Returned
    /\ eff.alias

(***************************************************************************)
(* C6  rank_magnitude and its band check.                                  *)
(* Original: the call raises the invalid-band error exactly when           *)
(* epsilon < density < 1 - epsilon does not hold.                          *)
(* Amended: that holds for density < 1; with density >= 1 the call returns *)
(* the input and raises nothing, although the inequality fails.            *)
(***************************************************************************)
\* C6 as stated: the error is raised exactly outside the band
C6_RaisesIffOutOfBand ==
    (Done /\ RankCall) => ((eff.outcome = "ValueError") <=> ~InBand)

\* C6 amended: so for density < 1; density >= 1 returns
C6_BandCheck ==
    (Done /\ RankCall)
    => IF RLt(call.density, ROne)
       THEN /\ (eff.outcome = "ValueError") <=> ~InBand
            /\ Returned => InBand
       ELSE Returned

\* C6 witness: density sits on the upper edge of the band, and only there
C6_Witness ==
    /\ Done
    /\ RankCall
    /\ RLt(call.density, ROne)
    /\ RLt(call.epsilon, call.density)
    /\ call.density = RSub(ROne, call.epsilon)
    /\ eff.outcome = "ValueError"

(***************************************************************************)
(* C7  magnitude never zeroes the whole tensor: with density < 1 and       *)
(* floor(density * N) = 0 the call ends in the assertion error and returns *)
(* no tensor, and a call that returns with density < 1 kept k >= 1         *)
(* entries.                                                                *)
(***************************************************************************)
\* C7: k = 0 ends in the assertion error, a return kept k >= 1 entries
C7_NoSilentZero ==
    (Done /\ MagnitudeCall /\ RLt(call.density, ROne))
    => /\ FloorMul(call.density, N) = 0
              => (eff.outcome = "AssertionError" /\ eff.res = <<>>)
       /\ Returned => (eff.k >= 1 /\ Kept # {})

\* C7 witness: through the dispatcher, on a tensor of more than one entry
C7_Witness ==
    /\ Done
    /\ call.fn = "sparsify"
    /\ call.method = "consensus_ties"
    /\ N > 1
    /\ RLt(call.density, ROne)
    /\ eff.outcome = "AssertionError"

(***************************************************************************)
(* C8  rank_magnitude returns a tensor of the shape of its input, for 1-D  *)
(* and for 2-D inputs.                                                     *)
(***************************************************************************)
\* C8: the result has the input's shape
C8_SameShape == (Done /\ RankCall /\ Returned) => eff.rshape = input.shape

(***************************************************************************)
(* C9  Both stochastic strategies follow the same precision policy: they   *)
(* upcast to float32 exactly on the CPU for a dtype other than bfloat16,   *)
(* work in the tensor's dtype otherwise, and return the input's dtype.     *)
(***************************************************************************)
\* C9: the result has the input's dtype, the work dtype follows the policy
C9_Precision ==
    (Done /\ (BernoulliCall \/ RankCall) /\ Returned)
    => /\ eff.rdtype = input.dtype
       /\ ~eff.alias
              => eff.work_dtype
                     = (IF input.device = "cpu" /\ input.dtype # "bfloat16"
                        THEN "float32" ELSE input.dtype)

(***************************************************************************)
(* C10  rank_magnitude with density < 1 and epsilon < density < 1 - eps:   *)
(* in every row of every length >= 1 each keep-probability is a number,    *)
(* lies in [density - eps, density + eps] inside (0,1), is                 *)
(* density - eps + (rank - 1)/(row_length - 1) * 2 eps for the ranks       *)
(* 1..row_length by ascending magnitude; the lowest-magnitude entry gets   *)
(* density - eps and the highest density + eps.                            *)
(***************************************************************************)
C10_cols == Unsqueezed(input.shape)[2]

C10_SameRow(i, j) == (i - 1) \div C10_cols = (j - 1) \div C10_cols

C10_lo == RSub(call.density, call.epsilon)

C10_hi == RAdd(call.density, call.epsilon)

C10_ProbOfRank(r) ==
    RAdd(C10_lo, RMul(RDiv(R(r - 1, 1), R(C10_cols - 1, 1)),
                      RMul(R(2, 1), call.epsilon)))

\* C10: every keep-probability is a number of the band, by rank
C10_KeepProbabilities ==
    (Done /\ RankCall /\ RLt(call.density, ROne) /\ InBand)
    => /\ Len(eff.probs) = N
       /\ \A i \in 1..N :
            /\ IsFinite(eff.probs[i])
            /\ RGe(eff.probs[i], C10_lo) /\ RLe(eff.probs[i], C10_hi)
            /\ RGt(eff.probs[i], RZero) /\ RLt(eff.probs[i], ROne)
            /\ \E r \in 1..C10_cols : eff.probs[i] = C10_ProbOfRank(r)
            /\ \E j \in 1..N :
                 /\ C10_SameRow(i, j)
                 /\ eff.probs[j] = C10_lo
                 /\ \A h \in 1..N : C10_SameRow(i, h) => RLe(InputAbs(j), InputAbs(h))
            /\ \E j \in 1..N :
                 /\ C10_SameRow(i, j)
                 /\ eff.probs[j] = C10_hi
                 /\ \A h \in 1..N : C10_SameRow(i, h) => RGe(InputAbs(j), InputAbs(h))
            /\ \A j \in 1..N :
                 (C10_SameRow(i, j) /\ RLt(InputAbs(i), InputAbs(j)))
                     => RLe(eff.probs[i], eff.probs[j])

====
